---- MODULE Spec2Model ----
(***************************************************************************)
(* Model of src/soundboard.py: the SoundboardWindow store (self.sounds),   *)
(* its list widget, the QSettings "sounds" array, the keyboard hook table  *)
(* (self.hotkey_ids and the library's installed bindings) and the          *)
(* sounddevice playback state, driven by the control (Qt) thread and by    *)
(* the keyboard library's hook thread.                                     *)
(*                                                                         *)
(* Python strings are sequences of tokens: a token stands for a run of     *)
(* characters that the program never cuts in the middle.                   *)
(***************************************************************************)
EXTENDS Integers, Sequences, FiniteSets, TLC

\* ------------------------------------------------------------- bounds ----
\* most rows the list widget is allowed to reach (add_sound is cut off there)
MaxRows == 2
\* most files that disappear from the disk during a run
MaxRemoved == 1
\* most streams that are playing without being sounddevice's current one
MaxOrphans == 1
\* most devices sd.query_devices() lists when every list is tried
MaxDevs == 3

\* ------------------------------------------------------------ strings ----
\* str.lower() on one token
LowerTok(t) ==
  CASE t = "Shift" -> "shift"
    [] t = "Ctrl" -> "ctrl"
    [] t = "W" -> "w"
    [] t = "E" -> "e"
    [] t = "SoundBoard_Internal" -> "soundboard_internal"
    [] OTHER -> t

\* str.lower()
Lower(s) == [i \in 1..Len(s) |-> LowerTok(s[i])]

\* s[i:].startswith(pat)
MatchAt(s, i, pat) ==
  /\ i + Len(pat) - 1 <= Len(s)
  /\ SubSeq(s, i, i + Len(pat) - 1) = pat

\* pat in s
Contains(s, pat) == \E i \in 1..(Len(s) + 1) : MatchAt(s, i, pat)

\* s.find(pat), 1-based, 0 when absent
Find(s, pat) ==
  IF Contains(s, pat)
  THEN CHOOSE i \in 1..(Len(s) + 1) :
         /\ MatchAt(s, i, pat)
         /\ \A j \in 1..(i - 1) : ~MatchAt(s, j, pat)
  ELSE 0

RECURSIVE Replace(_, _, _)
\* s.replace(pat, rep): left to right, non-overlapping (pat is never empty)
Replace(s, pat, rep) ==
  IF Find(s, pat) = 0
  THEN s
  ELSE SubSeq(s, 1, Find(s, pat) - 1) \o rep
         \o Replace(SubSeq(s, Find(s, pat) + Len(pat), Len(s)), pat, rep)

\* s.split(sep)[0]
SplitFirst(s, sep) ==
  IF Find(s, sep) = 0 THEN s ELSE SubSeq(s, 1, Find(s, sep) - 1)

\* the literals of the program
NOTE == <<"<note> ">>
OPEN == <<" [">>
CLOSE == <<"]">>
PLUS == <<"+">>
SLASH == <<"/">>
SINK_ID == <<"soundboard_internal">>

\* Python None; also the falsy value of a "key" field
None == <<>>

\* ----------------------------------------------------------- the disk ----
X == <<"x.wav">>
Y == <<"y.wav">>
XB == <<"x.wav", " [", "b.wav">>

PathAX == <<"/", "a", "/">> \o X
PathBX == <<"/", "b", "/">> \o X
PathAY == <<"/", "a", "/">> \o Y
PathAXB == <<"/", "a", "/">> \o XB

\* the audio files on the disk when the program is first started
Files == {PathAX, PathBX, PathAY, PathAXB}

\* the files the user picks in the file dialog, and the ones that disappear
Paths == {PathAX, PathBX, PathAY}

RECURSIVE LastSlash(_, _)
\* path.rfind("/") scanning down from position i; 0 when absent
LastSlash(p, i) ==
  IF i = 0 THEN 0
  ELSE IF MatchAt(p, i, SLASH) THEN i ELSE LastSlash(p, i - 1)

\* os.path.basename
basename(p) == SubSeq(p, LastSlash(p, Len(p)) + 1, Len(p))

\* what the key-capture widget can hand back: QKeySequence.toString()
QtSeqs == {<<>>, <<"Shift", "+", "W">>, <<"Ctrl", "+", "E">>}

\* the device lists sd.query_devices() can return
DevDefault == <<"default_output">>
DevSink42 == <<"SoundBoard_Internal", "_42">>
DeviceLists == {<<DevDefault>>, <<DevDefault, DevSink42>>}

\* every list of at most MaxDevs devices with these two names
AnyDeviceLists == UNION {[1..n -> {DevDefault, DevSink42}] : n \in 0..MaxDevs}

\* the "sounds" arrays a first start can find in the settings backend
InitSettings ==
  { <<>>,
    << [name |-> X, path |-> PathAX, key |-> <<"shift", "+", "w">>],
       [name |-> X, path |-> PathBX, key |-> None] >> }

\* XDG_SESSION_TYPE, lower-cased
Sessions == {"x11", "wayland"}

Threads == {"ctl", "hook"}

\* --------------------------------------------------------------- state ----
VARIABLES
  session,     \* module-level session
  sounds,      \* self.sounds: dict name -> {path, key}, in insertion order
  list,        \* self.list: the row texts, top to bottom
  hotkey_ids,  \* self.hotkey_ids: dict name -> handle
  hook,        \* the bindings installed in the keyboard library
  settings,    \* QSettings: the "sounds" array as beginReadArray sees it
  exists,      \* the paths os.path.exists answers True for
  removed,     \* how many files have disappeared
  devices,     \* sd.query_devices()
  playing,     \* the stream of sounddevice's _last_callback while it plays
  orphans,     \* streams still playing that sounddevice no longer refers to
  th,          \* per thread: position and locals of its current call
  lastOp       \* the last handler the control thread entered

vars == <<session, sounds, list, hotkey_ids, hook, settings, exists, removed,
          devices, playing, orphans, th, lastOp>>

storeVars == <<sounds, list, hotkey_ids, hook, settings>>
envVars == <<session, exists, removed, devices>>
audioVars == <<playing, orphans>>

\* ------------------------------------------------------ dict, in order ----
DictHas(d, n) == \E i \in 1..Len(d) : d[i].name = n

DictIdx(d, n) == CHOOSE i \in 1..Len(d) : d[i].name = n

\* d[n]
DictGet(d, n) == d[DictIdx(d, n)]

\* a store that appends an entry without looking for the id
DictSetAppend(d, n, p, k) == Append(d, [name |-> n, path |-> p, key |-> k])

\* d[n] = {"path": p, "key": k}: an existing key keeps its position
DictSet(d, n, p, k) ==
  IF DictHas(d, n)
  THEN [d EXCEPT ![DictIdx(d, n)] = [name |-> n, path |-> p, key |-> k]]
  ELSE Append(d, [name |-> n, path |-> p, key |-> k])

\* d.pop(n, None)
DictPop(d, n) ==
  IF DictHas(d, n)
  THEN SubSeq(d, 1, DictIdx(d, n) - 1) \o SubSeq(d, DictIdx(d, n) + 1, Len(d))
  ELSE d

\* list.takeItem(i)
TakeItem(l, i) == SubSeq(l, 1, i - 1) \o SubSeq(l, i + 1, Len(l))

\* ------------------------------------------------------------ row text ----
\* f"<note> {name}" and f"<note> {name} [{key}]"
RowText(n, k) == IF k # None THEN NOTE \o n \o OPEN \o k \o CLOSE ELSE NOTE \o n

\* item.text().replace("<note> ", "").split(" [")[0]
RowName(text) == SplitFirst(Replace(text, NOTE, <<>>), OPEN)

\* HotkeyDialog.apply: seq.lower().replace("+", "+")
DialogKey(seq) == Replace(Lower(seq), PLUS, PLUS)

\* ------------------------------------------------------------ settings ----
\* save_sounds: beginWriteArray, one slot per entry in dict order, endArray
\* (which stores the number of slots written as the array's size); the
\* result is the array a later beginReadArray sees
save_sounds(d) ==
  [i \in 1..Len(d) |-> [name |-> d[i].name, path |-> d[i].path, key |-> d[i].key]]

RECURSIVE LoadFromAll(_, _, _, _)
\* a load loop that does not ask whether the file exists
LoadFromAll(st, ex, i, acc) ==
  IF i > Len(st) THEN acc
  ELSE LoadFromAll(st, ex, i + 1,
         [sounds |-> DictSet(acc.sounds, st[i].name, st[i].path, st[i].key),
          list |-> Append(acc.list, RowText(st[i].name, st[i].key))])

RECURSIVE LoadFrom(_, _, _, _)
\* load_sounds: the loop over range(size), from slot i on, into acc
LoadFrom(st, ex, i, acc) ==
  IF i > Len(st) THEN acc
  ELSE IF st[i].path # None /\ st[i].path \in ex
       THEN LoadFrom(st, ex, i + 1,
              [sounds |-> DictSet(acc.sounds, st[i].name, st[i].path, st[i].key),
               list |-> Append(acc.list, RowText(st[i].name, st[i].key))])
       ELSE LoadFrom(st, ex, i + 1, acc)

\* load_sounds: list.clear(), sounds.clear(), then the loop
load_sounds(st, ex) == LoadFrom(st, ex, 1, [sounds |-> <<>>, list |-> <<>>])

\* ------------------------------------------------------------- hotkeys ----
\* a handle keyboard.add_hotkey has not handed out among the live ones
FreshHid(hk) == CHOOSE h \in 1..(Cardinality(hk) + 1) : \A b \in hk : b.hid # h

RECURSIVE RegisterFrom(_, _, _)
\* register_hotkeys, second loop, from entry i on: acc = [hook, ids]
RegisterFrom(d, i, acc) ==
  IF i > Len(d) THEN acc
  ELSE IF d[i].key # None
       THEN LET h == FreshHid(acc.hook)
            IN RegisterFrom(d, i + 1,
                 [hook |-> acc.hook \cup {[hid |-> h, key |-> d[i].key, name |-> d[i].name]},
                  ids |-> {r \in acc.ids : r.name # d[i].name}
                            \cup {[name |-> d[i].name, hid |-> h]}])
       ELSE RegisterFrom(d, i + 1, acc)

\* a first loop that leaves the old bindings installed
UnregisterNone(hk, ids) == hk

\* register_hotkeys, first loop: remove every handle of hotkey_ids, clear it
UnregisterAll(hk, ids) == {b \in hk : \A r \in ids : r.hid # b.hid}

\* ---------------------------------------------------------------- sink ----
RECURSIVE SinkFromCased(_, _)
\* a search that compares the device name without lower-casing it
SinkFromCased(devs, i) ==
  IF i > Len(devs) THEN -1
  ELSE IF Contains(devs[i], SINK_ID) THEN i - 1 ELSE SinkFromCased(devs, i + 1)

RECURSIVE SinkFrom(_, _)
\* find_sb_sink: index (from 0) of the first match, -1 for the RuntimeError
SinkFrom(devs, i) ==
  IF i > Len(devs) THEN -1
  ELSE IF Contains(Lower(devs[i]), SINK_ID) THEN i - 1 ELSE SinkFrom(devs, i + 1)

find_sb_sink(devs) == SinkFrom(devs, 1)

\* --------------------------------------------------------------- init ----
Idle == [pc |-> "idle", name |-> None, path |-> None, sink |-> -1, row |-> 0]

\* no stream: sounddevice's _last_callback is unset or its stream is stopped
NoStream == [path |-> None, dev |-> -1]

NoOp == [op |-> "init", name |-> None, key |-> None]

\* a constructor that does not call register_hotkeys
ConstructNoHotkeys(ses, st, ex) ==
  [sounds |-> load_sounds(st, ex).sounds, list |-> load_sounds(st, ex).list,
   hook |-> {}, ids |-> {}]

\* SoundboardWindow.__init__: init_ui, load_sounds, register_hotkeys on x11
Construct(ses, st, ex) ==
  LET ld == load_sounds(st, ex)
      rg == IF ses = "x11"
            THEN RegisterFrom(ld.sounds, 1, [hook |-> {}, ids |-> {}])
            ELSE [hook |-> {}, ids |-> {}]
  IN [sounds |-> ld.sounds, list |-> ld.list, hook |-> rg.hook, ids |-> rg.ids]

\* the state right after SoundboardWindow() has been constructed
Constructed ==
  /\ sounds = Construct(session, settings, exists).sounds
  /\ list = Construct(session, settings, exists).list
  /\ hook = Construct(session, settings, exists).hook
  /\ hotkey_ids = Construct(session, settings, exists).ids
  /\ playing = NoStream
  /\ orphans = 0
  /\ th = [t \in Threads |-> Idle]
  /\ lastOp = NoOp

Init ==
  /\ session \in Sessions
  /\ settings \in InitSettings
  /\ exists = Files
  /\ removed = 0
  /\ devices = <<DevDefault, DevSink42>>
  /\ Constructed

\* ------------------------------------------------- control thread: store ----
CtlIdle == th["ctl"].pc = "idle"

Goto(t, pc) == th' = [th EXCEPT ![t].pc = pc]

Return(t) == th' = [th EXCEPT ![t] = Idle]

Raise(t) == th' = [th EXCEPT ![t] = [Idle EXCEPT !.pc = "raised"]]

\* the key of entry n before the handler runs, None when n is not in the store
KeyOf(d, n) == IF DictHas(d, n) THEN DictGet(d, n).key ELSE None

\* add_sound with the path the file dialog returned; the dialog only returns
\* files that exist, an empty path (not modelled as a step) returns at once
add_sound(p) ==
  /\ CtlIdle
  /\ p \in exists
  /\ Len(list) < MaxRows
  /\ LET name == basename(p)
     IN /\ sounds' = DictSet(sounds, name, p, None)
        /\ list' = Append(list, RowText(name, None))
        /\ settings' = save_sounds(sounds')
        /\ lastOp' = [op |-> "add", name |-> name, key |-> KeyOf(sounds, name)]
  /\ UNCHANGED <<hotkey_ids, hook, th>>
  /\ UNCHANGED envVars
  /\ UNCHANGED audioVars

\* a delete_sound that forgets the entry's handle without removing the binding
delete_sound_keep(i) ==
  /\ CtlIdle
  /\ i \in 1..Len(list)
  /\ hotkey_ids' = {r \in hotkey_ids : r.name # RowName(list[i])}
  /\ th' = [th EXCEPT !["ctl"] = [Idle EXCEPT !.pc = "del_pop",
                                               !.name = RowName(list[i]), !.row = i]]
  /\ lastOp' = [op |-> "delete", name |-> RowName(list[i]),
                key |-> KeyOf(sounds, RowName(list[i]))]
  /\ UNCHANGED <<sounds, list, settings, hook>>
  /\ UNCHANGED envVars
  /\ UNCHANGED audioVars

\* delete_sound on the current row i, up to the removal of the binding
delete_sound(i) ==
  /\ CtlIdle
  /\ i \in 1..Len(list)
  /\ LET name == RowName(list[i])
     IN /\ IF \E r \in hotkey_ids : r.name = name
           THEN /\ hook' = {b \in hook : \A r \in hotkey_ids :
                                            r.name = name => r.hid # b.hid}
                /\ hotkey_ids' = {r \in hotkey_ids : r.name # name}
           ELSE UNCHANGED <<hotkey_ids, hook>>
        /\ th' = [th EXCEPT !["ctl"] = [Idle EXCEPT !.pc = "del_pop",
                                                     !.name = name, !.row = i]]
        /\ lastOp' = [op |-> "delete", name |-> name, key |-> KeyOf(sounds, name)]
  /\ UNCHANGED <<sounds, list, settings>>
  /\ UNCHANGED envVars
  /\ UNCHANGED audioVars

\* a rest of delete_sound that does not call save_sounds
delete_pop_nosave ==
  /\ th["ctl"].pc = "del_pop"
  /\ sounds' = DictPop(sounds, th["ctl"].name)
  /\ list' = TakeItem(list, th["ctl"].row)
  /\ Return("ctl")
  /\ UNCHANGED <<hotkey_ids, hook, lastOp, settings>>
  /\ UNCHANGED envVars
  /\ UNCHANGED audioVars

\* delete_sound, the rest: sounds.pop, takeItem, save_sounds
delete_pop ==
  /\ th["ctl"].pc = "del_pop"
  /\ sounds' = DictPop(sounds, th["ctl"].name)
  /\ list' = TakeItem(list, th["ctl"].row)
  /\ settings' = save_sounds(sounds')
  /\ Return("ctl")
  /\ UNCHANGED <<hotkey_ids, hook, lastOp>>
  /\ UNCHANGED envVars
  /\ UNCHANGED audioVars

\* an assign_hotkey whose button is connected whatever the session is
assign_hotkey_anysession(i, accepted, seq) ==
  /\ CtlIdle
  /\ i \in 1..Len(list)
  /\ LET name == RowName(list[i])
         key == IF accepted /\ seq # <<>> THEN DialogKey(seq) ELSE None
     IN IF key = None
        THEN UNCHANGED vars
        ELSE /\ lastOp' = [op |-> "assign", name |-> name, key |-> KeyOf(sounds, name)]
             /\ IF DictHas(sounds, name)
                THEN /\ sounds' = DictSet(sounds, name, DictGet(sounds, name).path, key)
                     /\ list' = [list EXCEPT ![i] = RowText(name, key)]
                     /\ settings' = save_sounds(sounds')
                     /\ Goto("ctl", "reg_clear")
                ELSE /\ Raise("ctl")
                     /\ UNCHANGED <<sounds, list, settings>>
             /\ UNCHANGED <<hotkey_ids, hook>>
             /\ UNCHANGED envVars
             /\ UNCHANGED audioVars

\* assign_hotkey on the current row i; the dialog is accepted with the
\* sequence seq or rejected. The button is connected on x11 only.
assign_hotkey(i, accepted, seq) ==
  /\ CtlIdle
  /\ session = "x11"
  /\ i \in 1..Len(list)
  /\ LET name == RowName(list[i])
         key == IF accepted /\ seq # <<>> THEN DialogKey(seq) ELSE None
     IN IF key = None
        THEN UNCHANGED vars
        ELSE /\ lastOp' = [op |-> "assign", name |-> name, key |-> KeyOf(sounds, name)]
             /\ IF DictHas(sounds, name)
                THEN /\ sounds' = DictSet(sounds, name, DictGet(sounds, name).path, key)
                     /\ list' = [list EXCEPT ![i] = RowText(name, key)]
                     /\ settings' = save_sounds(sounds')
                     /\ Goto("ctl", "reg_clear")
                ELSE /\ Raise("ctl")
                     /\ UNCHANGED <<sounds, list, settings>>
             /\ UNCHANGED <<hotkey_ids, hook>>
             /\ UNCHANGED envVars
             /\ UNCHANGED audioVars

\* register_hotkeys, first loop and clear
register_clear ==
  /\ th["ctl"].pc = "reg_clear"
  /\ hook' = UnregisterAll(hook, hotkey_ids)
  /\ hotkey_ids' = {}
  /\ Goto("ctl", "reg_add")
  /\ UNCHANGED <<sounds, list, settings, lastOp>>
  /\ UNCHANGED envVars
  /\ UNCHANGED audioVars

\* register_hotkeys, second loop
register_add ==
  /\ th["ctl"].pc = "reg_add"
  /\ hook' = RegisterFrom(sounds, 1, [hook |-> hook, ids |-> hotkey_ids]).hook
  /\ hotkey_ids' = RegisterFrom(sounds, 1, [hook |-> hook, ids |-> hotkey_ids]).ids
  /\ Return("ctl")
  /\ UNCHANGED <<sounds, list, settings, lastOp>>
  /\ UNCHANGED envVars
  /\ UNCHANGED audioVars

\* ------------------------------------------------------------ playback ----
\* the audio state as one value
Audio == [playing |-> playing, orphans |-> orphans]

\* a stop() that leaves the stream playing
SdStopNothing(a) == a

\* sd.stop(): stops the stream _last_callback refers to, if any
SdStop(a) == [a EXCEPT !.playing = NoStream]

\* the end of sounddevice's start_stream: the new stream starts and becomes
\* _last_callback; a stream that is still playing then is out of stop()'s reach
SdStart(a, p, dev) ==
  [playing |-> [path |-> p, dev |-> dev],
   orphans |-> IF a.playing # NoStream THEN a.orphans + 1 ELSE a.orphans]

\* load_audio(self.sounds[name]["path"]) succeeds: the name is in the store
\* (else KeyError) and the file can be read (else the decoder raises)
CanLoad(d, ex, n) == DictHas(d, n) /\ DictGet(d, n).path \in ex

\* the exception leaves the handler (Qt slot) or the callback (hook thread)
unwind(t) ==
  /\ th[t].pc = "raised"
  /\ Return(t)
  /\ UNCHANGED lastOp
  /\ UNCHANGED storeVars
  /\ UNCHANGED envVars
  /\ UNCHANGED audioVars

\* stop_btn.clicked.connect(sd.stop)
stop_button ==
  /\ CtlIdle
  /\ playing' = SdStop(Audio).playing
  /\ lastOp' = [op |-> "stop", name |-> None, key |-> None]
  /\ UNCHANGED <<orphans, th>>
  /\ UNCHANGED storeVars
  /\ UNCHANGED envVars

\* closeEvent: sd.stop(), keyboard.clear_all_hotkeys(), event.accept();
\* keyboard is not imported off x11 and the second line raises NameError
closeEvent ==
  /\ CtlIdle
  /\ playing' = SdStop(Audio).playing
  /\ lastOp' = [op |-> "close", name |-> None, key |-> None]
  /\ IF session = "x11"
     THEN /\ hook' = {}
          /\ Goto("ctl", "closed")
     ELSE /\ Raise("ctl")
          /\ UNCHANGED hook
  /\ UNCHANGED <<sounds, list, hotkey_ids, settings, orphans>>
  /\ UNCHANGED envVars

\* ------------------------------------------- playback, line by line ----
\* thread t is inside play_sound
InCall(t) == th[t].pc \in {"load", "stop", "sink", "play", "start"}

\* play_selected on the current row i enters play_sound
play_selected_enter(i) ==
  /\ CtlIdle
  /\ i \in 1..Len(list)
  /\ orphans < MaxOrphans
  /\ th' = [th EXCEPT !["ctl"] = [Idle EXCEPT !.pc = "load", !.name = RowName(list[i])]]
  /\ lastOp' = [op |-> "play", name |-> RowName(list[i]),
                key |-> KeyOf(sounds, RowName(list[i]))]
  /\ UNCHANGED storeVars
  /\ UNCHANGED envVars
  /\ UNCHANGED audioVars

\* the hook thread enters the callback of the installed binding b
hotkey_enter(b) ==
  /\ th["hook"].pc = "idle"
  /\ b \in hook
  /\ orphans < MaxOrphans
  /\ th' = [th EXCEPT !["hook"] = [Idle EXCEPT !.pc = "load", !.name = b.name]]
  /\ UNCHANGED lastOp
  /\ UNCHANGED storeVars
  /\ UNCHANGED envVars
  /\ UNCHANGED audioVars

\* play_sound: data, sr = load_audio(self.sounds[name]["path"])
play_load(t) ==
  /\ th[t].pc = "load"
  /\ IF CanLoad(sounds, exists, th[t].name)
     THEN th' = [th EXCEPT ![t].pc = "stop",
                           ![t].path = DictGet(sounds, th[t].name).path]
     ELSE Raise(t)
  /\ UNCHANGED lastOp
  /\ UNCHANGED storeVars
  /\ UNCHANGED envVars
  /\ UNCHANGED audioVars

\* play_sound: sd.stop()
play_stop(t) ==
  /\ th[t].pc = "stop"
  /\ playing' = SdStop(Audio).playing
  /\ Goto(t, "sink")
  /\ UNCHANGED <<orphans, lastOp>>
  /\ UNCHANGED storeVars
  /\ UNCHANGED envVars

\* play_sound: SB_SINK = self.find_sb_sink()
play_sink(t) ==
  /\ th[t].pc = "sink"
  /\ IF find_sb_sink(devices) = -1
     THEN Raise(t)
     ELSE th' = [th EXCEPT ![t].pc = "play", ![t].sink = find_sb_sink(devices)]
  /\ UNCHANGED lastOp
  /\ UNCHANGED storeVars
  /\ UNCHANGED envVars
  /\ UNCHANGED audioVars

\* play_sound: sd.play(...), up to the stop() that start_stream begins with
play_prepare(t) ==
  /\ th[t].pc = "play"
  /\ playing' = SdStop(Audio).playing
  /\ Goto(t, "start")
  /\ UNCHANGED <<orphans, lastOp>>
  /\ UNCHANGED storeVars
  /\ UNCHANGED envVars

\* play_sound: sd.play(...), the rest of start_stream, and the return
play_start(t) ==
  /\ th[t].pc = "start"
  /\ playing' = SdStart(Audio, th[t].path, th[t].sink).playing
  /\ orphans' = SdStart(Audio, th[t].path, th[t].sink).orphans
  /\ Return(t)
  /\ UNCHANGED lastOp
  /\ UNCHANGED storeVars
  /\ UNCHANGED envVars

\* ------------------------------------------------------- the environment ----
\* the stream of _last_callback plays to its end
stream_finish ==
  /\ playing # NoStream
  /\ playing' = NoStream
  /\ UNCHANGED <<orphans, th, lastOp>>
  /\ UNCHANGED storeVars
  /\ UNCHANGED envVars

\* a stream that stop() cannot reach plays to its end
orphan_finish ==
  /\ orphans > 0
  /\ orphans' = orphans - 1
  /\ UNCHANGED <<playing, th, lastOp>>
  /\ UNCHANGED storeVars
  /\ UNCHANGED envVars

\* a file disappears from the disk
remove_file(p) ==
  /\ p \in exists
  /\ removed < MaxRemoved
  /\ exists' = exists \ {p}
  /\ removed' = removed + 1
  /\ UNCHANGED <<session, devices, th, lastOp>>
  /\ UNCHANGED storeVars
  /\ UNCHANGED audioVars

\* the audio subsystem adds or drops devices
change_devices(l) ==
  /\ l # devices
  /\ devices' = l
  /\ UNCHANGED <<session, exists, removed, th, lastOp>>
  /\ UNCHANGED storeVars
  /\ UNCHANGED audioVars

\* the process ends and a new one constructs SoundboardWindow again
restart ==
  /\ sounds' = Construct(session, settings, exists).sounds
  /\ list' = Construct(session, settings, exists).list
  /\ hook' = Construct(session, settings, exists).hook
  /\ hotkey_ids' = Construct(session, settings, exists).ids
  /\ playing' = NoStream
  /\ orphans' = 0
  /\ th' = [t \in Threads |-> Idle]
  /\ lastOp' = [op |-> "restart", name |-> None, key |-> None]
  /\ UNCHANGED settings
  /\ UNCHANGED envVars

\* ----------------------------------------------------- specifications ----
\* the store: the handlers of the control thread that change it, restarts
\* of the process, files that disappear
Next ==
  \/ \E p \in Paths : add_sound(p)
  \/ \E i \in 1..Len(list) : delete_sound(i)
  \/ delete_pop
  \/ \E i \in 1..Len(list), a \in BOOLEAN, q \in QtSeqs : assign_hotkey(i, a, q)
  \/ register_clear
  \/ register_add
  \/ \E t \in Threads : unwind(t)
  \/ closeEvent
  \/ \E p \in Paths : remove_file(p)
  \/ restart

Spec == Init /\ [][Next]_vars

\* hotkeys across restarts: the store is built up and the process restarted
\* while the hook thread runs the callbacks of the installed bindings
InitPlay ==
  /\ session \in Sessions
  /\ settings \in InitSettings
  /\ exists = Files
  /\ removed = 0
  /\ devices = <<DevDefault, DevSink42>>
  /\ Constructed

NextPlay ==
  \/ \E p \in Paths : add_sound(p)
  \/ \E i \in 1..Len(list), a \in BOOLEAN, q \in QtSeqs : assign_hotkey(i, a, q)
  \/ register_clear
  \/ register_add
  \/ \E b \in hook : hotkey_enter(b)
  \/ play_load("hook")
  \/ play_stop("hook")
  \/ play_sink("hook")
  \/ play_prepare("hook")
  \/ play_start("hook")
  \/ stream_finish
  \/ restart

SpecPlay == InitPlay /\ [][NextPlay]_vars

\* playback, line by line: the control thread and the hook thread run
\* play_sound at the same time over a store loaded from the settings
ConcSettings ==
  << [name |-> X, path |-> PathAX, key |-> <<"shift", "+", "w">>],
     [name |-> Y, path |-> PathAY, key |-> <<"ctrl", "+", "e">>] >>

InitConc ==
  /\ session = "x11"
  /\ settings = ConcSettings
  /\ exists = Files
  /\ removed = 0
  /\ devices \in DeviceLists
  /\ Constructed

NextConc ==
  \/ \E i \in 1..Len(list) : play_selected_enter(i)
  \/ \E b \in hook : hotkey_enter(b)
  \/ \E t \in Threads : play_load(t)
  \/ \E t \in Threads : play_stop(t)
  \/ \E t \in Threads : play_sink(t)
  \/ \E t \in Threads : play_prepare(t)
  \/ \E t \in Threads : play_start(t)
  \/ \E t \in Threads : unwind(t)
  \/ stop_button
  \/ stream_finish
  \/ orphan_finish
  \/ \E p \in Paths : remove_file(p)
  \/ \E l \in DeviceLists : change_devices(l)

SpecConc == InitConc /\ [][NextConc]_vars

\* play_sound calls that follow one another, over every device list: a call
\* is entered, from the play button or from a hotkey, only when no other call
\* is running; devices come and go and files disappear between its lines
InitCalls ==
  /\ session = "x11"
  /\ settings = ConcSettings
  /\ exists = Files
  /\ removed = 0
  /\ devices \in AnyDeviceLists
  /\ Constructed

NextCalls ==
  \/ (\A t \in Threads : ~InCall(t)) /\ \E i \in 1..Len(list) : play_selected_enter(i)
  \/ (\A t \in Threads : ~InCall(t)) /\ \E b \in hook : hotkey_enter(b)
  \/ \E t \in Threads : play_load(t)
  \/ \E t \in Threads : play_stop(t)
  \/ \E t \in Threads : play_sink(t)
  \/ \E t \in Threads : play_prepare(t)
  \/ \E t \in Threads : play_start(t)
  \/ \E t \in Threads : unwind(t)
  \/ stop_button
  \/ stream_finish
  \/ \E p \in Paths : remove_file(p)
  \/ \E l \in AnyDeviceLists : change_devices(l)

SpecCalls == InitCalls /\ [][NextCalls]_vars

\* hotkey triggers against the handlers: the hook thread runs the callbacks
\* of the bindings installed at construction line by line while the control
\* thread deletes and adds entries
InitRace ==
  /\ session = "x11"
  /\ settings = ConcSettings
  /\ exists = Files
  /\ removed = 0
  /\ devices = <<DevDefault, DevSink42>>
  /\ Constructed

NextRace ==
  \/ \E p \in Paths : add_sound(p)
  \/ \E i \in 1..Len(list) : delete_sound(i)
  \/ delete_pop
  \/ \E b \in hook : hotkey_enter(b)
  \/ play_load("hook")
  \/ play_stop("hook")
  \/ play_sink("hook")
  \/ play_prepare("hook")
  \/ play_start("hook")
  \/ unwind("hook")
  \/ stream_finish

SpecRace == InitRace /\ [][NextRace]_vars

\* row texts: the handlers that write a row's text or read a name back from
\* it, over files whose names do and do not hold the text " ["
RowFiles == {PathAX, PathAXB}

InitRows ==
  /\ session = "x11"
  /\ settings = <<>>
  /\ exists = Files
  /\ removed = 0
  /\ devices = <<DevDefault, DevSink42>>
  /\ Constructed

NextRows ==
  \/ \E p \in RowFiles : add_sound(p)
  \/ \E i \in 1..Len(list) : delete_sound(i)
  \/ delete_pop
  \/ \E i \in 1..Len(list), a \in BOOLEAN, q \in QtSeqs : assign_hotkey(i, a, q)
  \/ register_clear
  \/ register_add
  \/ unwind("ctl")
  \/ restart

SpecRows == InitRows /\ [][NextRows]_vars

\* ------------------------------------------------------------- claims ----
\* the streams started by the program that are playing
ActiveStreams == orphans + (IF playing # NoStream THEN 1 ELSE 0)

\* C1: when play_sound calls follow one another (from the play button or from
\* a hotkey callback, each call ending before the next begins), the stream
\* of a call is stopped before the next one starts: at most one stream
\* started by the program is playing in every reachable state.
C1_OneStreamAtATime == ActiveStreams <= 1

\* a hotkey callback has started y.wav after the play button played x.wav
C1_Witness ==
  /\ lastOp.op = "play"
  /\ lastOp.name = X
  /\ playing # NoStream
  /\ playing.path = PathAY
  /\ \A t \in Threads : th[t].pc = "idle"

\* C2: when two play_sound executions overlap (one on the hook thread, one
\* on the control thread), no interleaving of their lines reaches a state in
\* which two streams are playing at once.
C2_NoOverlappingStreams == ~(playing # NoStream /\ orphans > 0)

\* C3: add_sound with a path whose base name is already an id of the store
\* changes nothing: the entry, the list rows, the bindings and the persisted
\* array stay as they are.
C3_DuplicateAddChangesNothing ==
  [][\A p \in Paths :
       (add_sound(p) /\ DictHas(sounds, basename(p))) => UNCHANGED storeVars]_vars

\* C4: no two entries of the store have the same id, after any sequence of
\* add_sound, delete_sound, assign_hotkey and load_sounds (also from a
\* persisted array that holds the same name twice).
C4_UniqueIds ==
  \A i, j \in 1..Len(sounds) : sounds[i].name = sounds[j].name => i = j

\* add_sound has run for an id that already had a row: two rows carry the
\* id and the store has it
C4_Witness ==
  /\ lastOp.op = "add"
  /\ th["ctl"].pc = "idle"
  /\ DictHas(sounds, lastOp.name)
  /\ \E i, j \in 1..Len(list) :
       /\ i # j
       /\ RowName(list[i]) = lastOp.name
       /\ RowName(list[j]) = lastOp.name

\* C5: once delete_sound has completed for an entry, no binding whose
\* callback plays that entry is installed in the hook.
C5_DeleteRemovesBinding ==
  (th["ctl"].pc = "idle" /\ lastOp.op = "delete")
    => \A b \in hook : b.name # lastOp.name

\* delete_sound has completed for an entry that had a hotkey
C5_Witness ==
  /\ session = "x11"
  /\ th["ctl"].pc = "idle"
  /\ lastOp.op = "delete"
  /\ lastOp.key # None
  /\ ~DictHas(sounds, lastOp.name)

\* C6: once assign_hotkey has completed for an entry, exactly one binding
\* for the entry is installed and it is on the new combo; no binding on the
\* combo the entry had before plays it.
C6_ReassignMovesBinding ==
  (th["ctl"].pc = "idle" /\ lastOp.op = "assign" /\ DictHas(sounds, lastOp.name))
    => /\ \E b \in hook :
            /\ b.name = lastOp.name
            /\ b.key = DictGet(sounds, lastOp.name).key
            /\ \A c \in hook : c.name = lastOp.name => c = b
       /\ DictGet(sounds, lastOp.name).key # None

\* assign_hotkey has completed for an entry that had another combo before
C6_Witness ==
  /\ th["ctl"].pc = "idle"
  /\ lastOp.op = "assign"
  /\ lastOp.key # None
  /\ DictHas(sounds, lastOp.name)
  /\ DictGet(sounds, lastOp.name).key # lastOp.key

\* os.path.exists(entry path)
FileIsThere(e) == e.path \in exists

\* C7: a restart that finds the array save_sounds wrote for the current
\* store loads, in the same order, exactly the entries whose file exists.
C7_SaveLoadRoundTrip ==
  [][(restart /\ settings = save_sounds(sounds))
       => sounds' = SelectSeq(sounds, FileIsThere)]_vars

\* a restart has loaded one of two saved entries, the other file is gone
C7_Witness ==
  /\ lastOp.op = "restart"
  /\ Len(settings) = 2
  /\ settings[1].name # settings[2].name
  /\ Len(sounds) = 1
  /\ \E i \in 1..2 : settings[i].path \notin exists

\* C8: an entry that was added and assigned a combo survives a restart on
\* x11 while its file exists: the reloaded entry has the same path and combo
\* and a binding on that combo is installed for it; and after the restart the
\* callback of a binding plays the path persisted for its entry and combo on
\* the device index find_sb_sink resolves.
C8_SurvivesRestart ==
  /\ [][(restart /\ session = "x11" /\ settings = save_sounds(sounds))
          => \A i \in 1..Len(sounds) :
               (sounds[i].key # None /\ sounds[i].path \in exists)
                 => /\ DictHas(sounds', sounds[i].name)
                    /\ DictGet(sounds', sounds[i].name) = sounds[i]
                    /\ \E b \in hook' : /\ b.name = sounds[i].name
                                        /\ b.key = sounds[i].key]_vars
  /\ [][\A b \in hook :
          (lastOp.op = "restart" /\ hotkey_enter(b))
            => \E i \in 1..Len(settings) :
                 /\ settings[i].name = th'["hook"].name
                 /\ settings[i].key = b.key]_vars
  /\ [][(lastOp.op = "restart" /\ play_sink("hook") /\ find_sb_sink(devices) # -1)
          => th'["hook"].sink = find_sb_sink(devices)]_vars
  /\ [][(lastOp.op = "restart" /\ play_start("hook"))
          => \E i \in 1..Len(settings) :
               /\ settings[i].name = th["hook"].name
               /\ settings[i].key # None
               /\ playing' = [path |-> settings[i].path,
                              dev |-> th["hook"].sink]]_vars

\* after a restart a hotkey callback has started the stream of a reloaded
\* entry that has a combo
C8_Witness ==
  /\ session = "x11"
  /\ lastOp.op = "restart"
  /\ playing # NoStream
  /\ \E b \in hook :
       /\ DictHas(sounds, b.name)
       /\ DictGet(sounds, b.name).key = b.key
       /\ playing.path = DictGet(sounds, b.name).path

\* C9: in every reachable state at most one binding is installed per combo.
C9_OneBindingPerCombo ==
  \A b, c \in hook : b.key = c.key => b = c

\* C10: when no handler is running, a binding is installed for an id only
\* if the store has an entry with that id and the entry has a hotkey.
C10_BindingOnlyWithHotkey ==
  th["ctl"].pc = "idle"
    => \A b \in hook : KeyOf(sounds, b.name) # None

\* the device at position i (from 1) is the reserved sink: its lower-cased
\* name has the sink identifier in it
IsSink(devs, i) == \E k \in 1..Len(devs[i]) : LowerTok(devs[i][k]) = SINK_ID[1]

\* what line 201 of play_sound does on thread t in this step: without a sink
\* the call raises, else it goes on with the first sink of the device list
\* of this moment
SinkOutcome(t) ==
  IF \E i \in 1..Len(devices) : IsSink(devices, i)
  THEN th'[t].pc = "play" /\ th'[t].sink = find_sb_sink(devices)
  ELSE th'[t].pc = "raised"

\* C11: find_sb_sink returns the smallest index (from 0) of a device whose
\* lower-cased name contains "soundboard_internal" and fails when there is
\* none; every play_sound call resolves it on the device list of that moment
\* and starts its stream on the index it resolved.
C11_FirstSinkEachPlay ==
  /\ [](/\ find_sb_sink(devices) = -1 <=> ~\E i \in 1..Len(devices) : IsSink(devices, i)
        /\ find_sb_sink(devices) # -1
             => /\ IsSink(devices, find_sb_sink(devices) + 1)
                /\ \A j \in 1..find_sb_sink(devices) : ~IsSink(devices, j))
  /\ [][\A t \in Threads : play_sink(t) => SinkOutcome(t)]_vars
  /\ [][\A t \in Threads : play_start(t) => playing'.dev = th[t].sink]_vars

\* a call has played on the first of two sinks that follow another device
C11_Witness ==
  /\ devices = <<DevDefault, DevSink42, DevSink42>>
  /\ lastOp.op = "play"
  /\ \A t \in Threads : th[t].pc = "idle"
  /\ playing # NoStream
  /\ playing.dev = 1

\* C12: off x11 the hotkey registry is inert for the life of the process:
\* no binding is ever installed, entries loaded with a hotkey included, and
\* assigning a hotkey or rebuilding the bindings changes neither the store,
\* the persisted array nor the binding table.
C12_InertOffX11 ==
  /\ [](session # "x11" => hook = {} /\ hotkey_ids = {})
  /\ [][(/\ session # "x11"
         /\ \/ \E i \in 1..Len(list), a \in BOOLEAN, q \in QtSeqs : assign_hotkey(i, a, q)
            \/ register_clear
            \/ register_add)
        => UNCHANGED <<sounds, settings, hook, hotkey_ids>>]_vars

\* off x11 the store has been loaded with an entry that carries a hotkey
C12_Witness ==
  /\ session # "x11"
  /\ lastOp.op = "restart"
  /\ \E i \in 1..Len(sounds) : sounds[i].key # None
  /\ hook = {}

\* C13: a failure raised while a hotkey trigger is handled (no sink, a file
\* that cannot be decoded, an entry that is missing) is caught inside the
\* installed callback and never leaves it into the hook thread.
C13_CallbackCatches == th["hook"].pc # "raised"

\* the stream that was active when thread t entered play_sound is stopped
\* when the call ends in this step: nothing plays after a call that raised,
\* only the new stream after a call that returned (no other call runs
\* meanwhile in SpecCalls)
StoppedAfterCall(t) ==
  /\ ((play_load(t) \/ play_sink(t)) /\ th'[t].pc = "raised")
       => playing' = NoStream /\ orphans' = 0
  /\ play_start(t) => orphans' = 0

\* C14: play_sound stops the active stream as its first step, before it
\* decodes and before it resolves the sink: a call made while a stream is
\* active has stopped that stream when it ends, whether it returns or fails
\* at the decode or at the sink resolution.
C14_StopBeforeDecode == [][\A t \in Threads : StoppedAfterCall(t)]_vars

\* C15: the hotkey callback reads the store through a snapshot taken when
\* its binding was installed: a trigger that runs while the control thread
\* deletes, adds again or edits entries never fails on a missing entry and
\* plays the path the entry had at the installation. (In SpecRace every
\* binding is installed at construction, from ConcSettings.)
C15_CallbackUsesSnapshot ==
  [][play_load("hook")
       => /\ th'["hook"].pc = "stop"
          /\ th'["hook"].path = DictGet(ConcSettings, th["hook"].name).path]_vars

\* C16: every mutation ends with a full write: once add_sound, delete_sound
\* or assign_hotkey has completed, the persisted "sounds" array equals the
\* store, entry for entry and in the same order.
C16_PersistedEqualsStore ==
  (th["ctl"].pc = "idle" /\ lastOp.op \in {"add", "delete", "assign"})
    => /\ Len(settings) = Len(sounds)
       /\ \A i \in 1..Len(sounds) :
            /\ settings[i].name = sounds[i].name
            /\ settings[i].path = sounds[i].path
            /\ settings[i].key = sounds[i].key

\* assign_hotkey has completed on the second of two entries
C16_Witness ==
  /\ th["ctl"].pc = "idle"
  /\ lastOp.op = "assign"
  /\ Len(sounds) = 2
  /\ sounds[2].key # None
  /\ settings[2].key = sounds[2].key

\* C17: at every instant, the steps inside delete_sound and
\* register_hotkeys included, every name with a live binding is the name of
\* an entry of the store: delete_sound removes the binding before the entry.
C17_BindingsNameEntries ==
  /\ \A b \in hook : DictHas(sounds, b.name)
  /\ \A r \in hotkey_ids : DictHas(sounds, r.name)

\* inside delete_sound: the entry had a hotkey, its binding is gone and the
\* entry is still in the store
C17_Witness ==
  /\ th["ctl"].pc = "del_pop"
  /\ lastOp.key # None
  /\ DictHas(sounds, th["ctl"].name)
  /\ \A b \in hook : b.name # th["ctl"].name

\* C18: the displayed list mirrors the store: after any sequence of
\* add_sound, delete_sound, assign_hotkey and load_sounds the rows are the
\* entries of the store, one row per entry and in the same order, so every
\* row that can be selected names an entry that exists.
C18_ListMirrorsStore ==
  th["ctl"].pc = "idle"
    => /\ Len(list) = Len(sounds)
       /\ \A i \in 1..Len(list) :
            i <= Len(sounds) => list[i] = RowText(sounds[i].name, sounds[i].key)

\* C19: the name read back from a row's text (the prefix stripped, the text
\* cut at the first " [") is the name of the entry the row was written for,
\* for every entry and every combo that can be assigned to it, so that
\* deleting a row removes exactly its entry.
C19_RowTextRoundTrip ==
  \A i \in 1..Len(sounds) : \A q \in QtSeqs :
    RowName(RowText(sounds[i].name, DialogKey(q))) = sounds[i].name

\* C20: closing the window always completes: on x11 and off it, closeEvent
\* stops the active stream, leaves no live binding and accepts the event
\* without raising.
C20_CloseCompletes ==
  lastOp.op = "close"
    => /\ th["ctl"].pc = "closed"
       /\ hook = {}
       /\ playing = NoStream

====
